---- MODULE Spec2Model ----
(***************************************************************************)
(* The dashboard store (src/src/store/dashboardStore.ts) together with the *)
(* mock API service it calls (dashboardApi, found at the end of            *)
(* src/src/components/dashboard/BenefitCard.tsx) and the mock data.        *)
(*                                                                         *)
(* The store is single threaded: every asynchronous operation is split at  *)
(* its `await` into the part that runs when the operation is called and    *)
(* the continuation that runs when the gateway promise settles.  Between   *)
(* the two, any other call or continuation may run.                        *)
(***************************************************************************)
EXTENDS Integers, Sequences, FiniteSets, Bags, TLC

\* Bound of the model: how many calls of the store's asynchronous operations
\* (loadDashboardData, claimBenefit) may be in flight at once.
MaxInFlight == 2

(***************************************************************************)
(* Data                                                                    *)
(***************************************************************************)

\* `null as any`, the value of user and rewardPoints before the first load
null == [tag |-> "null"]

mockUser ==
  [id |-> "1", name |-> "Arjun Mehta", email |-> "arjun.mehta@example.com",
   avatar |-> "https://images.pexels.com/photos/2379004/pexels-photo-2379004.jpeg?auto=compress&cs=tinysrgb&w=150&h=150&dpr=2",
   level |-> 7, currentXP |-> 2840, targetXP |-> 3500,
   title |-> "Gold Member", memberSince |-> "2022-03-15"]

mockBenefits ==
  << [id |-> "1", title |-> "20% Off Premium Dining",
      description |-> "Exclusive discount at top restaurants across Mumbai and Delhi",
      icon |-> "utensils", value |-> "₹2,500", category |-> "discount",
      claimed |-> FALSE, expiresAt |-> "2024-02-28",
      terms |-> "Valid only on weekdays. Minimum order ₹1000."],
     [id |-> "2", title |-> "Netflix Premium Voucher",
      description |-> "3 months free Netflix subscription worth ₹2,397",
      icon |-> "tv", value |-> "₹2,397", category |-> "voucher",
      claimed |-> FALSE, expiresAt |-> "2024-01-31"],
     [id |-> "3", title |-> "5% Cashback on Fuel",
      description |-> "Get cashback on fuel payments across all major petrol pumps",
      icon |-> "fuel", value |-> "5%", category |-> "cashback",
      claimed |-> TRUE, expiresAt |-> "2024-03-31"],
     [id |-> "4", title |-> "Airport Lounge Access",
      description |-> "Complimentary access to premium airport lounges",
      icon |-> "plane", value |-> "Free", category |-> "exclusive",
      claimed |-> FALSE, expiresAt |-> "2024-12-31"],
     [id |-> "5", title |-> "Swiggy Super Membership",
      description |-> "6 months of free delivery and exclusive discounts",
      icon |-> "bike", value |-> "₹899", category |-> "voucher",
      claimed |-> FALSE, expiresAt |-> "2024-02-15"],
     [id |-> "6", title |-> "Myntra Fashion Voucher",
      description |-> "₹1000 shopping voucher for fashion and lifestyle",
      icon |-> "shopping-bag", value |-> "₹1,000", category |-> "voucher",
      claimed |-> FALSE, expiresAt |-> "2024-01-30"] >>

mockRewardPoints ==
  [current |-> 15420, total |-> 47890, thisMonth |-> 2840, lastMonth |-> 3120,
   trend |-> "down", nextMilestone |-> 20000]

\* The object returned by dashboardApi.getDashboardData
mockDashboardData ==
  [user |-> mockUser, benefits |-> mockBenefits,
   rewardPoints |-> mockRewardPoints, isLoading |-> FALSE]

\* A second value of type DashboardData, which a gateway other than the mock
\* one may return: another user, fewer benefits in another order, benefit
\* "3" not claimed.
otherDashboardData ==
  [user |-> [mockUser EXCEPT !.id = "2", !.name = "Other User", !.level = 1],
   benefits |-> << [mockBenefits[3] EXCEPT !.claimed = FALSE], mockBenefits[1] >>,
   rewardPoints |-> [mockRewardPoints EXCEPT !.current = 0, !.trend = "stable"],
   isLoading |-> FALSE]

\* The identifiers claimBenefit is called with: "1" is loaded unclaimed, "3"
\* is loaded claimed by the mock gateway, "9" is in no collection.
BenefitIds == {"1", "3", "9"}

(***************************************************************************)
(* State                                                                   *)
(***************************************************************************)
VARIABLES
  user, benefits, rewardPoints, isLoading,  \* the store's state
  loadCalls,    \* loadDashboardData calls awaiting getDashboardData
  claimCalls,   \* bag of claimBenefit calls awaiting dashboardApi.claimBenefit
  last,         \* the step taken last and what its caller observed
  prev,         \* the store's state before the step taken last
  lastLoaded,   \* the DashboardData most recently put in the store by a load
  confirmed,    \* identifiers for which the gateway has resolved a claim true
  recorded,     \* which histories the specification records: "prev",
                \* "captured" (per claim in flight: the collection at the
                \* time of the call), "confirmed", "shared", "overlapped"
  gatewayBenefits,  \* the entries of the gateway's module-level array
                    \* mockBenefits, which getDashboardData returns as it is
  shared,       \* identifiers of the entries of the store's collection that
                \* are the very objects of the gateway's array
  overlapped    \* the loads in flight during whose flight another load has
                \* resolved or rejected

vars == <<user, benefits, rewardPoints, isLoading, loadCalls, claimCalls,
          last, prev, lastLoaded, confirmed, recorded, gatewayBenefits, shared, overlapped>>

\* get(): the current state of the store
get ==
  [user |-> user, benefits |-> benefits, rewardPoints |-> rewardPoints,
   isLoading |-> isLoading]

\* zustand's merge of a partial state into the state (Object.assign)
Merge(state, partial) ==
  [k \in DOMAIN state \cup DOMAIN partial |->
     IF k \in DOMAIN partial THEN partial[k] ELSE state[k]]

\* The store's state becomes `state`
Becomes(state) ==
  /\ user' = state.user
  /\ benefits' = state.benefits
  /\ rewardPoints' = state.rewardPoints
  /\ isLoading' = state.isLoading

\* The call of an event that is not about a claim
NoCall == [benefitId |-> "-", captured |-> << >>]

\* op: "init", "load", "loadDone", "claim", "claimDone", "setLoading";
\* slot: the load the event is about, or 0; call: the claim it is about;
\* outcome: what the gateway did, and for setLoading its argument;
\* ret: what the caller of the store got
Event(op, slot, call, outcome, ret) ==
  [op |-> op, slot |-> slot, call |-> call, outcome |-> outcome, ret |-> ret]

InitRecording(histories) ==
  /\ user = null
  /\ benefits = << >>
  /\ rewardPoints = null
  /\ isLoading = TRUE
  /\ loadCalls = [c \in 1..MaxInFlight |-> "idle"]
  /\ claimCalls = EmptyBag
  /\ last = Event("init", 0, NoCall, "-", "-")
  /\ prev = [user |-> null, benefits |-> << >>, rewardPoints |-> null,
             isLoading |-> TRUE]
  /\ lastLoaded = null
  /\ confirmed = {}
  /\ recorded = histories
  /\ gatewayBenefits = mockBenefits
  /\ shared = {}
  /\ overlapped = {}

Init == InitRecording({"prev"})

(***************************************************************************)
(* The gateway: dashboardApi                                               *)
(***************************************************************************)

\* getDashboardData(): after the delay, a new object that refers to the
\* module-level mockUser, mockBenefits and mockRewardPoints
getDashboardData ==
  [user |-> mockUser, benefits |-> gatewayBenefits,
   rewardPoints |-> mockRewardPoints, isLoading |-> FALSE]

\* The values of Math.random(), in tenths
RandomTenths == 0..9

\* Variant of apiClaimBenefit: an identifier of no mock benefit is refused
apiClaimBenefitValidated(benefitId, random) ==
  random > 1 /\ \E i \in 1..Len(mockBenefits) : mockBenefits[i].id = benefitId

\* claimBenefit(benefitId): `Math.random() > 0.1`, the argument is not used
apiClaimBenefit(benefitId, random) == random > 1

(***************************************************************************)
(* The store: useDashboardStore                                            *)
(***************************************************************************)

\* Variant of SpreadClaimed: the flag is toggled, { ...benefit, claimed: !benefit.claimed }
SpreadToggled(benefit) ==
  [k \in DOMAIN benefit \cup {"claimed"} |->
     IF k = "claimed" THEN ~benefit.claimed ELSE benefit[k]]

\* { ...benefit, claimed: true }
SpreadClaimed(benefit) ==
  [k \in DOMAIN benefit \cup {"claimed"} |->
     IF k = "claimed" THEN TRUE ELSE benefit[k]]

\* Variant of MapClaimed: the comparison of identifiers is missing
MapClaimedAll(bs, benefitId) ==
  [i \in 1..Len(bs) |-> [bs[i] EXCEPT !.claimed = TRUE]]

\* Variant of MapClaimed: an identifier that is not found is added
MapClaimedOrAdded(bs, benefitId) ==
  IF \E i \in 1..Len(bs) : bs[i].id = benefitId
    THEN [i \in 1..Len(bs) |->
            IF bs[i].id = benefitId THEN [bs[i] EXCEPT !.claimed = TRUE]
                                    ELSE bs[i]]
    ELSE Append(bs, [id |-> benefitId, claimed |-> TRUE])

\* Variant of MapClaimed: filter in the place of map, only the entry found
\* is kept
MapClaimedFiltered(bs, benefitId) ==
  SelectSeq([i \in 1..Len(bs) |-> [bs[i] EXCEPT !.claimed = TRUE]],
            LAMBDA b : b.id = benefitId)

\* get().benefits.map(benefit =>
\*   benefit.id === benefitId ? { ...benefit, claimed: true } : benefit)
MapClaimed(bs, benefitId) ==
  [i \in 1..Len(bs) |->
     IF bs[i].id = benefitId THEN SpreadClaimed(bs[i]) ELSE bs[i]]

\* Variant of BenefitsRead: the collection is read before the await
BenefitsReadAtCall(atResolution, atCall) == atCall

\* The collection the claim update starts from: get().benefits is read after
\* the await, so it is the collection at the time the gateway resolves and
\* not the one at the time of the call.
BenefitsRead(atResolution, atCall) == atResolution

\* Variant of claimBenefitThen: the result of the gateway is not tested
claimBenefitThenUntested(state, call, success) ==
  Merge(state, [benefits |-> MapClaimed(state.benefits, call.benefitId)])

\* Variant of claimBenefitThen: the update also clears the loading flag,
\* set({ benefits, isLoading: false })
claimBenefitThenNotLoading(state, call, success) ==
  IF success
    THEN Merge(state,
           [benefits |-> MapClaimed(state.benefits, call.benefitId),
            isLoading |-> FALSE])
    ELSE state

\* claimBenefit after `await dashboardApi.claimBenefit(benefitId)` resolved
\* with `success`: the state of the store it leaves
claimBenefitThen(state, call, success) ==
  IF success
    THEN Merge(state,
           [benefits |-> MapClaimed(BenefitsRead(state.benefits, call.captured),
                                    call.benefitId)])
    ELSE state

\* Variant of claimBenefitGateway: the entry found is updated in place,
\* benefit.claimed = true, so an entry that is the gateway's object changes
\* in the gateway's array too
claimBenefitGatewayInPlace(gateway, sharedIds, benefitId) ==
  IF benefitId \in sharedIds THEN MapClaimed(gateway, benefitId) ELSE gateway

\* What the claim update leaves of the gateway's array: map builds a new
\* array and the spread a new entry, no object of the gateway is written
claimBenefitGateway(gateway, sharedIds, benefitId) == gateway

\* claimBenefit's catch block: console.error only
claimBenefitCatch(state) == state

\* Variant of claimBenefitReturn: the catch block throws the error again
claimBenefitReturnRethrown(outcome) ==
  IF outcome = "reject" THEN "rejected" ELSE "resolved undefined"

\* What the caller of claimBenefit gets for each outcome of the gateway
\* ("true", "false", "reject"): an async function whose body catches every
\* error and returns nothing, so its promise resolves with undefined.
claimBenefitReturn(outcome) == "resolved undefined"

\* Variant of loadDashboardDataStart: the flag is not set before the await
loadDashboardDataStartNoFlag(state) == state

\* loadDashboardData up to the await: set({ isLoading: true })
loadDashboardDataStart(state) == Merge(state, [isLoading |-> TRUE])

\* Variant of loadDashboardDataThen: the data is dropped, set({ isLoading: false })
loadDashboardDataThenNoData(state, data) == Merge(state, [isLoading |-> FALSE])

\* loadDashboardData after the await resolved: set({ ...data, isLoading: false })
loadDashboardDataThen(state, data) ==
  Merge(state, Merge(data, [isLoading |-> FALSE]))

\* Variant of loadDashboardDataCatch: the catch block only logs
loadDashboardDataCatchLogOnly(state) == state

\* Variant of loadDashboardDataCatch: the catch block goes back to the
\* initial state
loadDashboardDataCatchReset(state) ==
  [user |-> null, benefits |-> << >>, rewardPoints |-> null,
   isLoading |-> FALSE]

\* loadDashboardData's catch block: set({ isLoading: false })
loadDashboardDataCatch(state) == Merge(state, [isLoading |-> FALSE])

\* What the caller of loadDashboardData gets, for "resolve" and "reject"
loadDashboardDataReturn(outcome) == "resolved undefined"

\* The record of a claimBenefit call in flight
ClaimCall(benefitId) ==
  [benefitId |-> benefitId,
   captured |-> IF "captured" \in recorded THEN benefits ELSE << >>]

\* The number of calls in flight
InFlight ==
  Cardinality({c \in 1..MaxInFlight : loadCalls[c] = "pending"})
    + BagCardinality(claimCalls)

\* loadDashboardData() is called
LoadCall(c) ==
  /\ InFlight < MaxInFlight
  /\ loadCalls[c] = "idle"
  /\ loadCalls' = [loadCalls EXCEPT ![c] = "pending"]
  /\ Becomes(loadDashboardDataStart(get))
  /\ last' = Event("load", c, NoCall, "-", "-")
  /\ prev' = IF "prev" \in recorded THEN get ELSE prev
  /\ UNCHANGED <<claimCalls, lastLoaded, confirmed, recorded,
                 gatewayBenefits, shared, overlapped>>

\* the gateway resolves the fetch of load c with data
LoadResolved(c, data) ==
  /\ loadCalls[c] = "pending"
  /\ loadCalls' = [loadCalls EXCEPT ![c] = "idle"]
  /\ Becomes(loadDashboardDataThen(get, data))
  /\ last' = Event("loadDone", c, NoCall, "resolve",
                   loadDashboardDataReturn("resolve"))
  /\ prev' = IF "prev" \in recorded THEN get ELSE prev
  /\ lastLoaded' = data
  /\ shared' = IF "shared" \in recorded /\ data.benefits = gatewayBenefits
                 THEN {data.benefits[i].id : i \in 1..Len(data.benefits)}
                 ELSE {}
  /\ overlapped' = IF "overlapped" \in recorded
                     THEN {d \in 1..MaxInFlight \ {c} : loadCalls[d] = "pending"}
                     ELSE {}
  /\ UNCHANGED <<claimCalls, confirmed, recorded, gatewayBenefits>>

\* the gateway rejects the fetch of load c
LoadRejected(c) ==
  /\ loadCalls[c] = "pending"
  /\ loadCalls' = [loadCalls EXCEPT ![c] = "idle"]
  /\ Becomes(loadDashboardDataCatch(get))
  /\ last' = Event("loadDone", c, NoCall, "reject",
                   loadDashboardDataReturn("reject"))
  /\ prev' = IF "prev" \in recorded THEN get ELSE prev
  /\ overlapped' = IF "overlapped" \in recorded
                     THEN {d \in 1..MaxInFlight \ {c} : loadCalls[d] = "pending"}
                     ELSE {}
  /\ UNCHANGED <<claimCalls, lastLoaded, confirmed, recorded,
                 gatewayBenefits, shared>>

\* claimBenefit(benefitId) is called: nothing happens before the await
ClaimCalled(benefitId) ==
  /\ InFlight < MaxInFlight
  /\ claimCalls' = claimCalls (+) SetToBag({ClaimCall(benefitId)})
  /\ last' = Event("claim", 0, ClaimCall(benefitId), "-", "-")
  /\ prev' = IF "prev" \in recorded THEN get ELSE prev
  /\ UNCHANGED <<user, benefits, rewardPoints, isLoading, loadCalls,
                 lastLoaded, confirmed, recorded,
                 gatewayBenefits, shared, overlapped>>

\* the gateway resolves the claim `call` with success
ClaimResolved(call, success) ==
  /\ BagIn(call, claimCalls)
  /\ claimCalls' = claimCalls (-) SetToBag({call})
  /\ Becomes(claimBenefitThen(get, call, success))
  /\ last' = Event("claimDone", 0, call,
                   IF success THEN "true" ELSE "false",
                   claimBenefitReturn(IF success THEN "true" ELSE "false"))
  /\ prev' = IF "prev" \in recorded THEN get ELSE prev
  /\ confirmed' = IF success /\ "confirmed" \in recorded
                     THEN confirmed \cup {call.benefitId} ELSE confirmed
  /\ gatewayBenefits' =
       IF success
         THEN claimBenefitGateway(gatewayBenefits, shared, call.benefitId)
         ELSE gatewayBenefits
  /\ shared' = IF success THEN shared \ {call.benefitId} ELSE shared
  /\ UNCHANGED <<loadCalls, lastLoaded, recorded, overlapped>>

\* the gateway rejects the claim `call`
ClaimRejected(call) ==
  /\ BagIn(call, claimCalls)
  /\ claimCalls' = claimCalls (-) SetToBag({call})
  /\ Becomes(claimBenefitCatch(get))
  /\ last' = Event("claimDone", 0, call, "reject",
                   claimBenefitReturn("reject"))
  /\ prev' = IF "prev" \in recorded THEN get ELSE prev
  /\ UNCHANGED <<loadCalls, lastLoaded, confirmed, recorded,
                 gatewayBenefits, shared, overlapped>>

\* Variant of setLoadingSet: the flag is toggled
setLoadingToggled(state, loading) ==
  Merge(state, [isLoading |-> ~state.isLoading])

\* setLoading: set({ isLoading: loading })
setLoadingSet(state, loading) == Merge(state, [isLoading |-> loading])

\* setLoading(loading)
SetLoading(loading) ==
  /\ Becomes(setLoadingSet(get, loading))
  /\ last' = Event("setLoading", 0, NoCall,
                   IF loading THEN "true" ELSE "false", "-")
  /\ prev' = IF "prev" \in recorded THEN get ELSE prev
  /\ UNCHANGED <<loadCalls, claimCalls, lastLoaded, confirmed, recorded,
                 gatewayBenefits, shared, overlapped>>

\* The store with any gateway of dashboardApi's type: a fetch resolves with
\* some DashboardData or rejects, a claim resolves true or false or rejects.
Next ==
  \/ \E c \in 1..MaxInFlight : LoadCall(c)
  \/ \E c \in 1..MaxInFlight, data \in {mockDashboardData, otherDashboardData} :
       LoadResolved(c, data)
  \/ \E c \in 1..MaxInFlight : LoadRejected(c)
  \/ \E benefitId \in BenefitIds : ClaimCalled(benefitId)
  \/ \E call \in BagToSet(claimCalls), success \in BOOLEAN :
       ClaimResolved(call, success)
  \/ \E call \in BagToSet(claimCalls) : ClaimRejected(call)
  \/ \E loading \in BOOLEAN : SetLoading(loading)

Spec == Init /\ [][Next]_vars

\* The same, recording for each claim in flight the collection at its call
SpecCaptured == InitRecording({"captured"}) /\ [][Next]_vars

\* The same, recording the identifiers the gateway has confirmed
SpecConfirmed == InitRecording({"confirmed"}) /\ [][Next]_vars

\* The same, where every fetch the gateway was asked for settles in the end
\* (the mock gateway settles it when its timer fires)
LoadSettles(c) ==
  \/ \E data \in {mockDashboardData, otherDashboardData} : LoadResolved(c, data)
  \/ LoadRejected(c)

FairSpec == Spec /\ \A c \in 1..MaxInFlight : WF_vars(LoadSettles(c))

\* The store with the mock gateway of the repository
NextMock ==
  \/ \E c \in 1..MaxInFlight : LoadCall(c)
  \/ \E c \in 1..MaxInFlight : LoadResolved(c, getDashboardData)
  \/ \E benefitId \in BenefitIds : ClaimCalled(benefitId)
  \/ \E call \in BagToSet(claimCalls), random \in RandomTenths :
       ClaimResolved(call, apiClaimBenefit(call.benefitId, random))
  \/ \E loading \in BOOLEAN : SetLoading(loading)

SpecMock == Init /\ [][NextMock]_vars

\* The same, recording which entries of the store are the gateway's objects
SpecMockShared == InitRecording({"prev", "shared"}) /\ [][NextMock]_vars

\* The store with any gateway when setLoading is never called: the loading
\* flag is written by loadDashboardData only
NextCalls ==
  \/ \E c \in 1..MaxInFlight : LoadCall(c)
  \/ \E c \in 1..MaxInFlight, data \in {mockDashboardData, otherDashboardData} :
       LoadResolved(c, data)
  \/ \E c \in 1..MaxInFlight : LoadRejected(c)
  \/ \E benefitId \in BenefitIds : ClaimCalled(benefitId)
  \/ \E call \in BagToSet(claimCalls), success \in BOOLEAN :
       ClaimResolved(call, success)
  \/ \E call \in BagToSet(claimCalls) : ClaimRejected(call)

\* The same, recording which loads in flight have seen another load end
SpecCalls == InitRecording({"prev", "overlapped"}) /\ [][NextCalls]_vars

(***************************************************************************)
(* The view: Dashboard                                                     *)
(***************************************************************************)

\* handleClaimBenefit: the toast shown after `await claimBenefit(benefitId)`,
\* by what the promise of the store's claimBenefit did: the success toast
\* after the await, the error toast in the catch block
handleClaimBenefitToast(ret) ==
  IF ret = "rejected" THEN "Error" ELSE "Benefit Claimed!"

\* The toast shown by the step taken last: claimBenefit is only called by
\* handleClaimBenefit, which shows a toast when the call ends
Toast ==
  IF last.op = "claimDone" THEN handleClaimBenefitToast(last.ret) ELSE "-"

\* BenefitsSection: const availableBenefits = benefits.filter(b => !b.claimed)
availableBenefits(bs) == SelectSeq(bs, LAMBDA b : ~b.claimed)

\* Variant of claimedBenefits: the filter keeps every entry
claimedBenefitsUnfiltered(bs) == SelectSeq(bs, LAMBDA b : TRUE)

\* BenefitsSection: const claimedBenefits = benefits.filter(b => b.claimed)
claimedBenefits(bs) == SelectSeq(bs, LAMBDA b : b.claimed)

\* BenefitsSection: `{availableBenefits.length} benefits waiting to be claimed`
WaitingCount(bs) == Len(availableBenefits(bs))

\* BenefitsSection: the BenefitCards it renders, the grid of the available
\* benefits and then, if there is a claimed benefit, the grid of the claimed ones
BenefitsSectionCards(bs) ==
  availableBenefits(bs)
    \o (IF Len(claimedBenefits(bs)) > 0 THEN claimedBenefits(bs) ELSE << >>)

\* Dashboard: {isLoading ? <BenefitsSkeleton /> : <BenefitsSection ... />},
\* the BenefitCards on the page for the store's current state
DashboardCards ==
  IF isLoading THEN << >> ELSE BenefitsSectionCards(benefits)

\* Dashboard: {isLoading ? <UserProfileSkeleton /> : <UserProfile user={user} />}
\* and the same for RewardProgress: the props the two components are
\* rendered with, or the skeletons
DashboardProfile ==
  IF isLoading
    THEN [skeleton |-> TRUE]
    ELSE [skeleton |-> FALSE, user |-> user, rewardPoints |-> rewardPoints]

\* Variant of ButtonDisabled: the button has no disabled attribute
ButtonDisabledNever(benefit) == FALSE

\* BenefitCard: <Button onClick={() => onClaim(benefit.id)} disabled={benefit.claimed}>
ButtonDisabled(benefit) == benefit.claimed

\* The user clicks the button of the i-th card on the page: onClaim is
\* handleClaimBenefit, which calls the store's claimBenefit(benefit.id)
ClickClaim(i) ==
  /\ i \in 1..Len(DashboardCards)
  /\ ~ButtonDisabled(DashboardCards[i])
  /\ ClaimCalled(DashboardCards[i].id)

\* The store as the Dashboard drives it, with the mock gateway: a load when
\* the component mounts, a claim when an enabled button is clicked,
\* setLoading is not called
NextView ==
  \/ \E c \in 1..MaxInFlight : LoadCall(c)
  \/ \E c \in 1..MaxInFlight : LoadResolved(c, getDashboardData)
  \/ \E i \in 1..Len(mockBenefits) : ClickClaim(i)
  \/ \E call \in BagToSet(claimCalls), random \in RandomTenths :
       ClaimResolved(call, apiClaimBenefit(call.benefitId, random))

SpecView == Init /\ [][NextView]_vars

TypeOK ==
  /\ isLoading \in BOOLEAN
  /\ \A i \in 1..Len(benefits) : benefits[i].claimed \in BOOLEAN
  /\ InFlight <= MaxInFlight

(***************************************************************************)
(* Properties                                                              *)
(***************************************************************************)

\* The step taken last is the end of a claimBenefit call whose gateway call
\* had one of the outcomes
ClaimDone(outcomes) == last.op = "claimDone" /\ last.outcome \in outcomes

\* The step taken last is the end of a loadDashboardData call
LoadDone(outcomes) == last.op = "loadDone" /\ last.outcome \in outcomes

\* The positions of the entries of bs with identifier id
Positions(bs, id) == {i \in 1..Len(bs) : bs[i].id = id}

\* C1: when the gateway resolves claimBenefit(id) with true, the collection
\* keeps its length and order, the entry with identifier id has claimed =
\* true, and every other entry is equal to what it was just before.
C1_ClaimTrueMarksEntry ==
  ClaimDone({"true"}) =>
    /\ Len(benefits) = Len(prev.benefits)
    /\ \A i \in 1..Len(benefits) :
         /\ benefits[i].id = prev.benefits[i].id
         /\ IF benefits[i].id = last.call.benefitId
              THEN benefits[i].claimed = TRUE
              ELSE benefits[i] = prev.benefits[i]

\* A confirmed claim has set the flag of an entry that was not claimed, in
\* the collection of six, next to entries that are still not claimed.
C1_Witness ==
  /\ ClaimDone({"true"})
  /\ Len(benefits) = 6
  /\ \E i \in Positions(benefits, last.call.benefitId) :
       ~prev.benefits[i].claimed /\ benefits[i].claimed
  /\ \E j \in 1..Len(benefits) : ~benefits[j].claimed

\* C2: when the gateway resolves claimBenefit(id) with false, or rejects,
\* user, benefits, rewardPoints and isLoading are what they were just before.
C2_ClaimFailedLeavesState ==
  ClaimDone({"false", "reject"}) => get = prev

\* The gateway has resolved false a claim of an entry that is there and is
\* not claimed.
C2_Witness ==
  /\ ClaimDone({"false"})
  /\ \E i \in Positions(benefits, last.call.benefitId) : ~benefits[i].claimed

\* C3: the caller of claimBenefit observes, when the gateway resolves false
\* or rejects, something else than when the gateway resolves true.
C3_FailureSurfaced ==
  ClaimDone({"false", "reject"}) => last.ret # claimBenefitReturn("true")

\* The collection most recently loaded
LoadedBenefits == IF lastLoaded = null THEN << >> ELSE lastLoaded.benefits

\* The entries of `after` are those of `before`, in the same order, with
\* claimed = true in the entries with identifier id and nothing else changed
IsClaimOf(after, before, id) ==
  /\ Len(after) = Len(before)
  /\ \A i \in 1..Len(after) :
       /\ [after[i] EXCEPT !.claimed = before[i].claimed] = before[i]
       /\ after[i].claimed = (before[i].claimed \/ before[i].id = id)

\* C4: when the gateway resolves claim(id) true while the store holds the
\* collection that the latest load has put there (in particular a load that
\* has completed while the claim was in flight), the collection becomes the
\* loaded one with entry id claimed, whatever it was when claim was called.
C4_ClaimAppliedToLoaded ==
  [][ ( /\ last'.op = "claimDone" /\ last'.outcome = "true"
        /\ lastLoaded # null
        /\ benefits = LoadedBenefits )
      => IsClaimOf(benefits', LoadedBenefits, last'.call.benefitId) ]_vars

\* A claim was called on a collection of another length than the one the
\* store holds, so a load has replaced the collection while the claim was in
\* flight; the claim has then been confirmed and has set the flag of its
\* entry in the loaded collection.
C4_Witness ==
  /\ ClaimDone({"true"})
  /\ Len(last.call.captured) # Len(LoadedBenefits)
  /\ IsClaimOf(benefits, LoadedBenefits, last.call.benefitId)
  /\ benefits # LoadedBenefits

\* C5: every loadDashboardData call in flight completes, and isLoading is
\* false in the state in which a load completes, resolved or rejected.
C5_LoadTerminatesNotLoading ==
  /\ [](LoadDone({"resolve", "reject"}) => ~isLoading)
  /\ \A c \in 1..MaxInFlight :
       (loadCalls[c] = "pending")
         ~> (LoadDone({"resolve", "reject"}) /\ last.slot = c /\ ~isLoading)

\* A load has completed by the rejection of the fetch, and has cleared the
\* flag it had set.
C5_Witness ==
  /\ LoadDone({"reject"})
  /\ prev.isLoading
  /\ ~isLoading

\* C6: when the fetch resolves, user, benefits and rewardPoints are those of
\* the returned data and isLoading is false; with the data of the mock
\* gateway there are 6 entries and the entry "3" is claimed.
C6_LoadResolvedReplaces ==
  LoadDone({"resolve"}) =>
    /\ user = lastLoaded.user
    /\ benefits = lastLoaded.benefits
    /\ rewardPoints = lastLoaded.rewardPoints
    /\ ~isLoading
    /\ lastLoaded = getDashboardData =>
         /\ Len(benefits) = 6
         /\ Positions(benefits, "3") # {}
         /\ \A i \in Positions(benefits, "3") : benefits[i].claimed

\* The first load has resolved with the data of the mock gateway.
C6_Witness ==
  /\ LoadDone({"resolve"})
  /\ prev.user = null /\ prev.benefits = << >> /\ prev.isLoading
  /\ lastLoaded = getDashboardData
  /\ Len(benefits) = 6

\* C7: when the fetch rejects, isLoading is false and user, benefits and
\* rewardPoints are what they were before: the loaded values after a load
\* that succeeded, and unpopulated if no load has succeeded.
C7_LoadRejectedKeepsData ==
  LoadDone({"reject"}) =>
    /\ ~isLoading
    /\ user = prev.user /\ benefits = prev.benefits
    /\ rewardPoints = prev.rewardPoints
    /\ IF lastLoaded = null
         THEN user = null /\ benefits = << >> /\ rewardPoints = null
         ELSE /\ user = lastLoaded.user
              /\ rewardPoints = lastLoaded.rewardPoints
              /\ Len(benefits) = Len(lastLoaded.benefits)

\* A reload has failed after a load that succeeded and a claim that was
\* confirmed: the store still shows the data and the claim.
C7_Witness ==
  /\ LoadDone({"reject"})
  /\ user = mockUser
  /\ \E i \in Positions(benefits, "1") : benefits[i].claimed

C9_ClaimTrueIdempotent ==
  ( /\ ClaimDone({"true"})
    /\ \E i \in Positions(prev.benefits, last.call.benefitId) :
         prev.benefits[i].claimed )
  => /\ benefits = prev.benefits
     /\ \A i, j \in 1..Len(benefits) :
          benefits[i].id = benefits[j].id => i = j

\* The gateway has confirmed a second claim of entry "1", which the first
\* had set to claimed.
C9_Witness ==
  /\ ClaimDone({"true"})
  /\ last.call.benefitId = "1"
  /\ \E i \in Positions(prev.benefits, "1") : prev.benefits[i].claimed
  /\ \E i \in Positions(benefits, "1") : benefits[i].claimed

\* C10: for an identifier that is not in the collection, claimBenefit leaves
\* the collection as it was whatever the gateway does, and its promise
\* resolves.
C10_ClaimOfAbsentId ==
  ( /\ ClaimDone({"true", "false", "reject"})
    /\ Positions(prev.benefits, last.call.benefitId) = {} )
  => /\ benefits = prev.benefits
     /\ last.ret = "resolved undefined"

\* The gateway has confirmed a claim of an identifier that no entry of the
\* loaded collection has.
C10_Witness ==
  /\ ClaimDone({"true"})
  /\ Len(prev.benefits) = 6
  /\ Positions(prev.benefits, last.call.benefitId) = {}
  /\ Len(benefits) = 6

\* C11: once an entry is claimed, no later state shows the entry with that
\* identifier with claimed = false; stated for one step: no step takes an
\* entry from claimed to not claimed.
C11_ClaimedNeverReset ==
  \A i \in 1..Len(prev.benefits) :
    prev.benefits[i].claimed =>
      \A j \in Positions(benefits, prev.benefits[i].id) : benefits[j].claimed

\* C11, amended: no step other than the resolution of a load takes an entry
\* from claimed to not claimed.
C11_ClaimedResetOnlyByLoad ==
  ~LoadDone({"resolve"}) => C11_ClaimedNeverReset

\* The gateway has resolved false a second claim of the entry "1", which a
\* first claim has set to claimed, and the entry is still claimed.
C11_Witness ==
  /\ ClaimDone({"false"})
  /\ last.call.benefitId = "1"
  /\ \E i \in Positions(prev.benefits, "1") : prev.benefits[i].claimed
  /\ \E i \in Positions(benefits, "1") : benefits[i].claimed

\* C12: the set of identifiers of the store's collection never loses an
\* element: every identifier there before a step is there after it.
C12_NoIdentifierLost ==
  \A i \in 1..Len(prev.benefits) :
    Positions(benefits, prev.benefits[i].id) # {}

\* A reload has resolved on a store that held the six entries, one of them
\* claimed by a claim, and the store holds six entries.
C12_Witness ==
  /\ LoadDone({"resolve"})
  /\ Len(prev.benefits) = 6
  /\ \E i \in Positions(prev.benefits, "1") : prev.benefits[i].claimed
  /\ Len(benefits) = 6

\* C13: a claimBenefit call, at its call and at its end whatever the gateway
\* did, leaves user, rewardPoints and isLoading as they were, and changes
\* in the collection nothing but the claimed field of the entries with the
\* identifier it was called with.
C13_ClaimFrame ==
  (last.op \in {"claim", "claimDone"}) =>
    /\ user = prev.user
    /\ rewardPoints = prev.rewardPoints
    /\ isLoading = prev.isLoading
    /\ Len(benefits) = Len(prev.benefits)
    /\ \A i \in 1..Len(benefits) :
         IF prev.benefits[i].id = last.call.benefitId
           THEN [benefits[i] EXCEPT !.claimed = prev.benefits[i].claimed]
                  = prev.benefits[i]
           ELSE benefits[i] = prev.benefits[i]

\* A claim has been confirmed and has set the flag of its entry while a load
\* was in flight: isLoading was true and is true.
C13_Witness ==
  /\ ClaimDone({"true"})
  /\ prev.isLoading /\ isLoading
  /\ \E c \in 1..MaxInFlight : loadCalls[c] = "pending"
  /\ \E i \in Positions(benefits, last.call.benefitId) :
       ~prev.benefits[i].claimed /\ benefits[i].claimed

\* C14: setLoading(b) leaves isLoading = b, and user, benefits and
\* rewardPoints as they were.
C14_SetLoadingFrame ==
  (last.op = "setLoading") =>
    /\ isLoading = (last.outcome = "true")
    /\ user = prev.user
    /\ benefits = prev.benefits
    /\ rewardPoints = prev.rewardPoints

\* setLoading(false) was called on the loaded store while a load was in
\* flight, and has cleared the flag the load had set.
C14_Witness ==
  /\ last.op = "setLoading" /\ last.outcome = "false"
  /\ \E c \in 1..MaxInFlight : loadCalls[c] = "pending"
  /\ prev.isLoading /\ ~isLoading
  /\ Len(benefits) = 6

\* C15: the promise of loadDashboardData and the promise of claimBenefit
\* resolve, whether the gateway resolved (true or false) or rejected.
C15_StoreNeverRejects ==
  (last.op \in {"loadDone", "claimDone"}) => last.ret = "resolved undefined"

\* The gateway has rejected a claim, and the promise of claimBenefit has
\* resolved.
C15_Witness ==
  /\ ClaimDone({"reject"})
  /\ last.ret = "resolved undefined"
  /\ Len(benefits) = 6

\* C16: when the gateway confirms a claim of b while the store shows a
\* present entry a, other than b, claimed that was not claimed when the
\* claim of b was called (a claim of a was confirmed while the claim of b
\* was in flight), the store then shows both a and b claimed.
C16_ConcurrentClaimsBothKept ==
  [][ ( /\ last'.op = "claimDone" /\ last'.outcome = "true"
        /\ Positions(benefits, last'.call.benefitId) # {} )
      => \A i \in 1..Len(benefits) :
           ( /\ benefits[i].id # last'.call.benefitId
             /\ benefits[i].claimed
             /\ \E k \in Positions(last'.call.captured, benefits[i].id) :
                  ~last'.call.captured[k].claimed )
           => /\ \A j \in Positions(benefits', benefits[i].id) :
                   benefits'[j].claimed
              /\ Positions(benefits', benefits[i].id) # {}
              /\ \A j \in Positions(benefits', last'.call.benefitId) :
                   benefits'[j].claimed ]_vars

\* Claims of "1" and of "3" were in flight together on a collection that
\* showed neither claimed; the gateway has confirmed the one, then the
\* other, and the store shows both claimed.
C16_Witness ==
  /\ ClaimDone({"true"})
  /\ lastLoaded = otherDashboardData
  /\ Len(last.call.captured) = Len(benefits)
  /\ \A k \in 1..Len(last.call.captured) : ~last.call.captured[k].claimed
  /\ Positions(benefits, "1") # {} /\ Positions(benefits, "3") # {}
  /\ \A i \in 1..Len(benefits) : benefits[i].claimed

\* C17: the result of the gateway's claimBenefit is the same for every
\* argument, and for every claim in flight, whatever its identifier and
\* whatever the store holds, the gateway may resolve true and may resolve
\* false; calling it leaves the store as it was.
C17_GatewayIgnoresArgument ==
  /\ \A call \in BagToSet(claimCalls) : \A result \in BOOLEAN :
       \E random \in RandomTenths :
         apiClaimBenefit(call.benefitId, random) = result
  /\ \A a, b \in BenefitIds : \A random \in RandomTenths :
       apiClaimBenefit(a, random) = apiClaimBenefit(b, random)
  /\ (last.op = "claim") => get = prev

\* Claims of an identifier that no entry has and of an entry that is
\* already claimed are in flight on the loaded store.
C17_Witness ==
  /\ last.op = "claim"
  /\ Len(benefits) = 6
  /\ \E call \in BagToSet(claimCalls) :
       Positions(benefits, call.benefitId) = {}
  /\ \E call \in BagToSet(claimCalls) :
       \E i \in Positions(benefits, call.benefitId) : benefits[i].claimed

\* C18: getDashboardData never rejects and returns at every call the same
\* data, with isLoading = false, whatever claims the store has applied: the
\* gateway's array is never changed.
C18_GatewaySnapshotConstant ==
  /\ gatewayBenefits = mockBenefits
  /\ getDashboardData = mockDashboardData
  /\ getDashboardData.isLoading = FALSE
  /\ (last.op = "loadDone") =>
       /\ last.outcome = "resolve"
       /\ lastLoaded = mockDashboardData
       /\ benefits = mockBenefits

\* A reload has resolved after a claim was confirmed on the entry "1" while
\* the store held the gateway's own objects: the store had "1" claimed and
\* holds the mock data again.
C18_Witness ==
  /\ LoadDone({"resolve"})
  /\ \E i \in Positions(prev.benefits, "1") : prev.benefits[i].claimed
  /\ "1" \in shared
  /\ benefits = mockBenefits

\* C19: the store starts with isLoading = true and no data, and user,
\* benefits and rewardPoints stay unpopulated until a load has resolved.
C19_UnpopulatedUntilLoaded ==
  /\ (last.op = "init") =>
       isLoading /\ user = null /\ benefits = << >> /\ rewardPoints = null
  /\ (lastLoaded = null) =>
       user = null /\ benefits = << >> /\ rewardPoints = null

\* Before any load has resolved, the gateway has confirmed a claim and
\* setLoading(false) has been called before it: the store has no data.
C19_Witness ==
  /\ lastLoaded = null
  /\ ClaimDone({"true"})
  /\ ~isLoading
  /\ user = null /\ benefits = << >> /\ rewardPoints = null

\* C20: handleClaimBenefit shows the success toast only when the gateway
\* has resolved true and the addressed entry is claimed, and shows the
\* error toast when the gateway has resolved false or has rejected.
C20_ToastTellsOutcome ==
  (last.op = "claimDone") =>
    /\ (Toast = "Benefit Claimed!") =>
         /\ last.outcome = "true"
         /\ \E i \in Positions(benefits, last.call.benefitId) :
              benefits[i].claimed
    /\ (last.outcome \in {"false", "reject"}) => Toast = "Error"

\* The loads in flight
PendingLoads == {c \in 1..MaxInFlight : loadCalls[c] = "pending"}

\* C21 as stated: when setLoading is not called, isLoading is true in every
\* state in which at least one loadDashboardData call is in flight, two
\* overlapping loads included.
C21_LoadingWhileAnyLoad == PendingLoads # {} => isLoading

\* C21 as it holds: when setLoading is not called, isLoading is true in
\* every state in which some load is in flight during whose flight no other
\* load has resolved or rejected.
C21_LoadingWhileFreshLoad == PendingLoads \ overlapped # {} => isLoading

\* Two loads overlapped and the first to end cleared the flag while the
\* other was in flight; a load called after that set the flag again.
C21_Witness ==
  /\ overlapped # {}
  /\ PendingLoads \ overlapped # {}
  /\ last.op = "load"
  /\ ~prev.isLoading
  /\ isLoading

\* C22: driven as the Dashboard drives the store, with a fetch that never
\* rejects, every state with isLoading = false has user and rewardPoints
\* populated, so UserProfile and RewardProgress are not rendered with null.
C22_RenderedPopulated ==
  /\ ~isLoading => user # null /\ rewardPoints # null
  /\ ~DashboardProfile.skeleton =>
        /\ DashboardProfile.user # null
        /\ DashboardProfile.rewardPoints # null

C22_Witness ==
  /\ LoadDone({"resolve"})
  /\ prev.user = null
  /\ ~isLoading
  /\ DashboardProfile =
       [skeleton |-> FALSE, user |-> mockUser, rewardPoints |-> mockRewardPoints]

\* C23: the view calls claimBenefit(id) only while isLoading is false and
\* only for an identifier whose entry is in the current collection with
\* claimed = false at the time of the call.
C23_ClaimOnlyUnclaimedShown ==
  last.op = "claim" =>
    /\ ~prev.isLoading
    /\ Positions(prev.benefits, last.call.benefitId) # {}
    /\ \A i \in Positions(prev.benefits, last.call.benefitId) :
         ~prev.benefits[i].claimed

\* The button of an unclaimed entry was clicked while the page also showed
\* an entry claimed by an earlier click, whose button is disabled.
C23_Witness ==
  /\ last.op = "claim"
  /\ last.call.benefitId = "2"
  /\ \E i \in Positions(prev.benefits, "1") : prev.benefits[i].claimed
  /\ ~prev.isLoading

\* The positions of the entries of bs whose claimed flag is `flag`
Flagged(bs, flag) == {i \in 1..Len(bs) : bs[i].claimed = flag}

\* The k-th smallest element of the set of positions S
Nth(S, k) == CHOOSE i \in S : Cardinality({j \in S : j <= i}) = k

\* list holds the entries of bs at the positions S, in the order of bs
InOrder(list, bs, S) ==
  /\ Len(list) = Cardinality(S)
  /\ \A k \in 1..Len(list) : list[k] = bs[Nth(S, k)]

\* The two lists BenefitsSection makes of bs are a partition of bs
Partitioned(bs) ==
  /\ InOrder(availableBenefits(bs), bs, Flagged(bs, FALSE))
  /\ InOrder(claimedBenefits(bs), bs, Flagged(bs, TRUE))
  /\ Len(availableBenefits(bs)) + Len(claimedBenefits(bs)) = Len(bs)
  /\ WaitingCount(bs) = Cardinality(Flagged(bs, FALSE))

\* The collections with the entries of bs and any claimed flags
Reflagged(bs) ==
  {[i \in 1..Len(bs) |-> [bs[i] EXCEPT !.claimed = f[i]]] :
     f \in [1..Len(bs) -> BOOLEAN]}

\* C24: BenefitsSection partitions the benefits it is given: every entry is
\* in exactly one of the available list (claimed = false) and the claimed
\* list (claimed = true), in its original relative order; the two lengths
\* sum to the length of the collection and the count displayed is the number
\* of entries with claimed = false. Checked for the store's collection and
\* for the same entries under every assignment of the claimed flags.
C24_SectionPartitions ==
  /\ Partitioned(benefits)
  /\ \A bs \in Reflagged(benefits) : Partitioned(bs)

\* The section is on the page with both lists holding more than one entry,
\* entry "1" having moved to the claimed list behind entry "3".
C24_Witness ==
  /\ ~isLoading
  /\ Len(DashboardCards) = Len(benefits)
  /\ WaitingCount(benefits) = 4
  /\ claimedBenefits(benefits)[1].id = "1"
  /\ claimedBenefits(benefits)[2].id = "3"

====
